---- MODULE Spec2Model ----
(***************************************************************************)
(* Batch PDF table extraction: the extraction strategies, the per-document *)
(* job process_single_pdf, the thread-pool batch driver process_pdfs_batch *)
(* and the command line entry point of batch_pdf_processor.py; the desktop *)
(* window of batch_processor_gui.py; the single-document fallback chains   *)
(* of alternative_pdf_extractor.py and streamlit_alternative_extractor.py; *)
(* the text chains of app.py, app_simple.py and app_enhanced.py.           *)
(*                                                                         *)
(* Conventions.  A Python call that may raise is an operator returning a   *)
(* record with a field saying whether an exception left the call.  A list  *)
(* of extracted tables is a sequence of table records.  Extracted text is  *)
(* the sequence of the non-empty page texts that '\n'.join glues together; *)
(* the empty sequence is the empty string.  A path is <<dir, kind, index>>,*)
(* dir being the directory as the output volume resolves its name.         *)
(* Wall-clock values (processing_time, timestamps) are kept only as "set"  *)
(* flags.  Every extracted table is taken to hold data (df.empty false).   *)
(***************************************************************************)
EXTENDS Integers, Sequences, FiniteSets, TLC

\* ------------------------------------------------------------ bounds
\* documents in the input directory of a full batch run
MaxDocs == 3
\* documents in the input directory of a test-mode run
MaxListed == 4
\* documents of a batch that is run twice
MaxRerunDocs == 2
\* documents of a batch started from the desktop window
MaxGuiDocs == 2
\* documents in a batch whose storage may fail
MaxFaultDocs == 2
\* largest --workers value tried
MaxWorkers == 2
\* tables one detection call (one Camelot flavor, one pdfplumber page) finds
MaxFound == 1
\* pages of a document
MaxPages == 1
\* failing writes per document
MaxFaults == 2
\* documents in a batch one of whose strategy calls may never return
MaxHangDocs == 2
\* documents in the input directory of a window used more than once
MaxWindowDocs == 1
\* presses of Start Processing in one session of the window
MaxPresses == 2
\* list(...glob("*.pdf"))[:3]
TestLimit == 3

Docs == 1..MaxListed

RECURSIVE SeqsUpTo(_, _)
SeqsUpTo(S, n) ==
  IF n = 0 THEN {<<>>}
  ELSE LET shorter == SeqsUpTo(S, n - 1)
       IN shorter \cup {Append(s, x) : s \in {t \in shorter : Len(t) = n - 1}, x \in S}

\* the length of a list taken whole where a slice [:b] was meant
whole_list(a, b) == a

\* len(list[:b]) for a list of length a
Min(a, b) == IF a < b THEN a ELSE b

\* dict.get(key, default)
Get(r, key, default) == IF key \in DOMAIN r THEN r[key] ELSE default

\* ------------------------------------------------------------ strategies
\* the tables a detection call hands back, as list elements
Tables(src, n) == [i \in 1..n |-> [src |-> src, num |-> i]]

\* What a Camelot call meets: the library (importable, not installed, or
\* failing otherwise) and what each flavor does (-1: read_pdf raises).
CamelotInputs ==
  [lib : {"ok", "missing", "broken"}, lattice : -1..MaxFound, stream : -1..MaxFound]

\* batch_pdf_processor.extract_with_camelot, the body of the outer try
camelot_try(inp) ==
  IF inp.lib = "missing" THEN [exc |-> "ImportError", val |-> <<>>]
  ELSE IF inp.lib = "broken" THEN [exc |-> "Exception", val |-> <<>>]
  ELSE LET lattice_tables == IF inp.lattice < 0 THEN 0 ELSE inp.lattice
           stream_tables == IF inp.stream < 0 THEN 0 ELSE inp.stream
       IN [exc |-> "none", val |-> Tables("camelot", lattice_tables + stream_tables)]

extract_with_camelot_uncaught(inp) ==
  LET b == camelot_try(inp)
  IN IF b.exc = "ImportError" THEN [raised |-> FALSE, tables |-> <<>>]
     ELSE IF b.exc = "Exception" THEN [raised |-> TRUE, tables |-> <<>>]
     ELSE [raised |-> FALSE, tables |-> b.val]

extract_with_camelot(inp) ==
  LET b == camelot_try(inp)
  IN IF b.exc = "ImportError" THEN [raised |-> FALSE, tables |-> <<>>]
     ELSE IF b.exc = "Exception" THEN [raised |-> FALSE, tables |-> <<>>]
     ELSE [raised |-> FALSE, tables |-> b.val]

\* A page as pdfplumber sees it: the tables extract_tables returns ("data":
\* some cell filled, "blank": rows without a filled cell, "empty": no row),
\* whether reading the page raises, and its text.
Pages ==
  [tabs : SeqsUpTo({"data", "blank", "empty"}, MaxFound), bad : BOOLEAN, text : {"", "txt"}]

PlumberInputs ==
  [lib : {"ok", "missing", "broken"}, opens : BOOLEAN, pages : SeqsUpTo(Pages, MaxPages)]

\* tables of one page that pass `table and any(any(cell ...))`
page_tables(page, page_num) ==
  LET keep == {k \in 1..Len(page.tabs) : page.tabs[k] = "data"}
      Nth[j \in 0..Cardinality(keep)] ==
        IF j = 0 THEN <<>>
        ELSE LET k == CHOOSE k \in keep :
                        Cardinality({m \in keep : m <= k}) = j
             IN Append(Nth[j - 1], [src |-> "pdfplumber", page |-> page_num, table_num |-> k])
  IN Nth[Cardinality(keep)]

RECURSIVE plumber_pages(_, _)
\* the loop over pdf.pages: [exc, tables, text] after the first n pages
plumber_pages(pages, n) ==
  IF n = 0 THEN [exc |-> "none", tables |-> <<>>, text |-> <<>>]
  ELSE LET before == plumber_pages(pages, n - 1)
           page == pages[n]
       IN IF before.exc # "none" THEN before
          ELSE IF page.bad THEN [exc |-> "Exception", tables |-> <<>>, text |-> <<>>]
          ELSE [exc |-> "none",
                tables |-> before.tables \o page_tables(page, n),
                text |-> IF page.text # "" THEN Append(before.text, page.text)
                         ELSE before.text]

\* batch_pdf_processor.extract_with_pdfplumber, the body of the try
pdfplumber_try(inp) ==
  IF inp.lib = "missing" THEN [exc |-> "ImportError", tables |-> <<>>, text |-> <<>>]
  ELSE IF inp.lib = "broken" \/ ~inp.opens
    THEN [exc |-> "Exception", tables |-> <<>>, text |-> <<>>]
  ELSE plumber_pages(inp.pages, Len(inp.pages))

extract_with_pdfplumber_uncaught(inp) ==
  LET b == pdfplumber_try(inp)
  IN IF b.exc = "ImportError" THEN [raised |-> FALSE, tables |-> <<>>, text |-> <<>>]
     ELSE IF b.exc = "Exception" THEN [raised |-> TRUE, tables |-> <<>>, text |-> <<>>]
     ELSE [raised |-> FALSE, tables |-> b.tables, text |-> b.text]

extract_with_pdfplumber(inp) ==
  LET b == pdfplumber_try(inp)
  IN IF b.exc = "ImportError" THEN [raised |-> FALSE, tables |-> <<>>, text |-> <<>>]
     ELSE IF b.exc = "Exception" THEN [raised |-> FALSE, tables |-> <<>>, text |-> <<>>]
     ELSE [raised |-> FALSE, tables |-> b.tables, text |-> b.text]

\* everything the two strategies can hand to process_single_pdf
CamelotReturns == {extract_with_camelot(i) : i \in CamelotInputs}
PlumberReturns == {extract_with_pdfplumber(i) : i \in PlumberInputs}

\* ------------------------------------------------------------ text measures
RECURSIVE JoinedLength(_)
\* len('\n'.join(all_text)); every page text here is "txt"
JoinedLength(text) ==
  IF text = <<>> THEN 0
  ELSE 3 + (IF Len(text) > 1 THEN 1 ELSE 0) + JoinedLength(Tail(text))

\* len(text.split()); every page text here is one word
WordCount(text) == Len(text)

\* ------------------------------------------------------------ storage
\* The file name of document d without its ".pdf": <<letters, spelling>>, the
\* letters of the name with case ignored and the way this file spells them.
\* Documents 1 and 2 differ in spelling only ("Report.pdf", "report.pdf").
Letters(d) == IF d = 2 THEN 1 ELSE d
Stem(d) == <<Letters(d), d>>

\* output_dir itself, as a directory of the volume
OutputRoot == <<0, 0>>

\* the directory the output volume resolves output_dir / name to: the name
\* itself, or its letters alone on a volume that ignores case
DirOf(name, volume) == IF volume = "folding" THEN <<name[1], 0>> ELSE name

DirTarget == <<"dir", 0>>
TextTarget == <<"extracted_text", 0>>
SummaryTarget == <<"summary", 0>>
ErrorTarget == <<"error", 0>>
TableTargets ==
  {<<"camelot_table", i>> : i \in 1..(2 * MaxFound)}
    \cup {<<"pdfplumber_table", i>> : i \in 1..(MaxFound * MaxPages)}
Targets == {DirTarget, TextTarget, SummaryTarget, ErrorTarget} \cup TableTargets

\* the failing writes the environment may impose on one document
FaultSets == {f \in SUBSET Targets : Cardinality(f) <= MaxFaults}

PathOf(dir, target) == <<dir, target[1], target[2]>>

\* Path.mkdir refusing a directory that is already there
mkdir_exclusive(path, exist_ok, existing, fails) ==
  IF fails THEN "OSError"
  ELSE IF path \in existing THEN "FileExistsError"
  ELSE "none"

\* Path.mkdir(exist_ok=...): the exception it ends with, "none" without one
mkdir(path, exist_ok, existing, fails) ==
  IF fails THEN "OSError"
  ELSE IF path \in existing /\ ~exist_ok THEN "FileExistsError"
  ELSE "none"

\* ------------------------------------------------------------ process_single_pdf
error_summary(d, why) == [filename |-> d, status |-> "error", error |-> why]

\* the summary with total_tables counting the tables saved, not those found
success_summary_saved(d, camelot_tables, camelot_saved, pdfplumber_tables, pdfplumber_saved, text) ==
  [filename |-> d,
   processing_time_set |-> TRUE,
   camelot_tables_found |-> Len(camelot_tables),
   camelot_tables_saved |-> camelot_saved,
   pdfplumber_tables_found |-> Len(pdfplumber_tables),
   pdfplumber_tables_saved |-> pdfplumber_saved,
   text_length |-> JoinedLength(text),
   word_count |-> IF text # <<>> THEN WordCount(text) ELSE 0,
   total_tables |-> camelot_saved + pdfplumber_saved,
   status |-> "success"]

\* lines 153-164
success_summary(d, camelot_tables, camelot_saved, pdfplumber_tables, pdfplumber_saved, text) ==
  [filename |-> d,
   processing_time_set |-> TRUE,
   camelot_tables_found |-> Len(camelot_tables),
   camelot_tables_saved |-> camelot_saved,
   pdfplumber_tables_found |-> Len(pdfplumber_tables),
   pdfplumber_tables_saved |-> pdfplumber_saved,
   text_length |-> JoinedLength(text),
   word_count |-> IF text # <<>> THEN WordCount(text) ELSE 0,
   total_tables |-> Len(camelot_tables) + Len(pdfplumber_tables),
   status |-> "success"]

\* lines 111-172: the try block.  [exc, val, files, tried, why, calls]
single_try(d, cam, pl, fail) ==
  IF cam.raised
    THEN [exc |-> TRUE, val |-> error_summary(d, "camelot"), files |-> {}, tried |-> {},
          why |-> "camelot", calls |-> <<"extract_with_camelot">>]
  ELSE IF pl.raised
    THEN [exc |-> TRUE, val |-> error_summary(d, "pdfplumber"), files |-> {}, tried |-> {},
          why |-> "pdfplumber", calls |-> <<"extract_with_camelot", "extract_with_pdfplumber">>]
  ELSE
    LET camelot_tries == {<<"camelot_table", i>> : i \in 1..Len(cam.tables)}
        pdfplumber_tries == {<<"pdfplumber_table", i>> : i \in 1..Len(pl.tables)}
        camelot_files == camelot_tries \ fail
        pdfplumber_files == pdfplumber_tries \ fail
        table_tries == camelot_tries \cup pdfplumber_tries
        table_files == camelot_files \cup pdfplumber_files
        has_text == pl.text # <<>>
        both == <<"extract_with_camelot", "extract_with_pdfplumber">>
        summary == success_summary(d, cam.tables, Cardinality(camelot_files),
                                   pl.tables, Cardinality(pdfplumber_files), pl.text)
    IN IF has_text /\ TextTarget \in fail
         THEN [exc |-> TRUE, val |-> summary, files |-> table_files,
               tried |-> table_tries \cup {TextTarget}, why |-> "extracted_text",
               calls |-> both]
       ELSE
         LET text_files == IF has_text THEN {TextTarget} ELSE {}
         IN IF SummaryTarget \in fail
              THEN [exc |-> TRUE, val |-> summary, files |-> table_files \cup text_files,
                    tried |-> table_tries \cup text_files \cup {SummaryTarget},
                    why |-> "summary", calls |-> both]
            ELSE [exc |-> FALSE, val |-> summary,
                  files |-> table_files \cup text_files \cup {SummaryTarget},
                  tried |-> table_tries \cup text_files \cup {SummaryTarget},
                  why |-> "none", calls |-> both]

\* process_single_pdf writing straight into output_dir, no directory of its own
process_single_pdf_shared_dir(d, cam, pl, fail, volume, existing) ==
  LET pdf_dir == OutputRoot
      made == mkdir(PathOf(pdf_dir, DirTarget), TRUE, existing, DirTarget \in fail)
  IN IF made # "none"
       THEN [raised |-> TRUE, value |-> error_summary(d, "dir"), files |-> {},
             tried |-> {DirTarget}, calls |-> <<>>]
     ELSE
       LET b == single_try(d, cam, pl, fail)
           written == {PathOf(pdf_dir, t) : t \in b.files \cup {DirTarget}}
       IN IF ~b.exc
            THEN [raised |-> FALSE, value |-> b.val, files |-> written,
                  tried |-> b.tried \cup {DirTarget}, calls |-> b.calls]
          ELSE IF ErrorTarget \in fail
            THEN [raised |-> TRUE, value |-> error_summary(d, "error"), files |-> written,
                  tried |-> b.tried \cup {DirTarget, ErrorTarget}, calls |-> b.calls]
          ELSE [raised |-> FALSE, value |-> error_summary(d, b.why),
                files |-> written \cup {PathOf(pdf_dir, ErrorTarget)},
                tried |-> b.tried \cup {DirTarget, ErrorTarget}, calls |-> b.calls]

\* lines 105-106: output_dir / Path(pdf_path).stem on the output volume
pdf_dir_of(d, volume) == DirOf(Stem(d), volume)

\* lines 103-184.  [raised, value, files, tried, calls]: whether an exception
\* left the call, the summary returned (or the reason raised), the paths
\* written, the writes attempted and the strategies invoked.  volume is the
\* kind of output volume, existing the paths already on it.
process_single_pdf(d, cam, pl, fail, volume, existing) ==
  LET pdf_dir == pdf_dir_of(d, volume)
      made == mkdir(PathOf(pdf_dir, DirTarget), TRUE, existing, DirTarget \in fail)
  IN IF made # "none"
       THEN [raised |-> TRUE, value |-> error_summary(d, "dir"), files |-> {},
             tried |-> {DirTarget}, calls |-> <<>>]
     ELSE
       LET b == single_try(d, cam, pl, fail)
           written == {PathOf(pdf_dir, t) : t \in b.files \cup {DirTarget}}
       IN IF ~b.exc
            THEN [raised |-> FALSE, value |-> b.val, files |-> written,
                  tried |-> b.tried \cup {DirTarget}, calls |-> b.calls]
          ELSE IF ErrorTarget \in fail
            THEN [raised |-> TRUE, value |-> error_summary(d, "error"), files |-> written,
                  tried |-> b.tried \cup {DirTarget, ErrorTarget}, calls |-> b.calls]
          ELSE [raised |-> FALSE, value |-> error_summary(d, b.why),
                files |-> written \cup {PathOf(pdf_dir, ErrorTarget)},
                tried |-> b.tried \cup {DirTarget, ErrorTarget}, calls |-> b.calls]

\* ------------------------------------------------------------ alternative_pdf_extractor
\* What a one-flavor detection call meets (found = -1: read_pdf raises).
DetectInputs == [lib : {"ok", "missing", "broken"}, found : -1..MaxFound]

\* lines 10-18 and 29-37: the body of the try of extract_with_camelot and of
\* extract_with_tabula
detect_try(inp, src) ==
  IF inp.lib = "missing" THEN [exc |-> "ImportError", val |-> <<>>]
  ELSE IF inp.lib = "broken" \/ inp.found < 0 THEN [exc |-> "Exception", val |-> <<>>]
  ELSE [exc |-> "none", val |-> Tables(src, inp.found)]

alt_extract_with_camelot(inp) ==
  LET b == detect_try(inp, "camelot")
  IN IF b.exc = "ImportError" THEN [raised |-> FALSE, tables |-> <<>>]
     ELSE IF b.exc = "Exception" THEN [raised |-> FALSE, tables |-> <<>>]
     ELSE [raised |-> FALSE, tables |-> b.val]

extract_with_tabula_uncaught(inp) ==
  LET b == detect_try(inp, "tabula")
  IN IF b.exc = "ImportError" THEN [raised |-> FALSE, tables |-> <<>>]
     ELSE IF b.exc = "Exception" THEN [raised |-> TRUE, tables |-> <<>>]
     ELSE [raised |-> FALSE, tables |-> b.val]

extract_with_tabula(inp) ==
  LET b == detect_try(inp, "tabula")
  IN IF b.exc = "ImportError" THEN [raised |-> FALSE, tables |-> <<>>]
     ELSE IF b.exc = "Exception" THEN [raised |-> FALSE, tables |-> <<>>]
     ELSE [raised |-> FALSE, tables |-> b.val]

\* lines 54-59: the tables of one page that pass `if table:`
alt_page_tables(page, page_num) ==
  LET keep == {k \in 1..Len(page.tabs) : page.tabs[k] # "empty"}
      Nth[j \in 0..Cardinality(keep)] ==
        IF j = 0 THEN <<>>
        ELSE LET k == CHOOSE k \in keep :
                        Cardinality({m \in keep : m <= k}) = j
             IN Append(Nth[j - 1], [src |-> "pdfplumber", page |-> page_num, table_num |-> k])
  IN Nth[Cardinality(keep)]

RECURSIVE alt_plumber_pages(_, _)
\* lines 52-59 and 79-82: the loops over pdf.pages
alt_plumber_pages(pages, n) ==
  IF n = 0 THEN [exc |-> "none", tables |-> <<>>, text |-> <<>>]
  ELSE LET before == alt_plumber_pages(pages, n - 1)
           page == pages[n]
       IN IF before.exc # "none" THEN before
          ELSE IF page.bad THEN [exc |-> "Exception", tables |-> <<>>, text |-> <<>>]
          ELSE [exc |-> "none",
                tables |-> before.tables \o alt_page_tables(page, n),
                text |-> IF page.text # "" THEN Append(before.text, page.text)
                         ELSE before.text]

alt_pdfplumber_try(inp) ==
  IF inp.lib = "missing" THEN [exc |-> "ImportError", tables |-> <<>>, text |-> <<>>]
  ELSE IF inp.lib = "broken" \/ ~inp.opens
    THEN [exc |-> "Exception", tables |-> <<>>, text |-> <<>>]
  ELSE alt_plumber_pages(inp.pages, Len(inp.pages))

\* lines 45-71
alt_extract_with_pdfplumber(inp) ==
  LET b == alt_pdfplumber_try(inp)
  IN IF b.exc = "ImportError" THEN [raised |-> FALSE, tables |-> <<>>]
     ELSE IF b.exc = "Exception" THEN [raised |-> FALSE, tables |-> <<>>]
     ELSE [raised |-> FALSE, tables |-> b.tables]

\* lines 73-86 (ImportError is an Exception); strip() leaves the page texts
extract_text_with_pdfplumber(inp) ==
  LET b == alt_pdfplumber_try(inp)
  IN IF b.exc # "none" THEN [raised |-> FALSE, text |-> <<>>]
     ELSE [raised |-> FALSE, text |-> b.text]

\* a strategy call as the caller's log of it
NotCalled == [called |-> FALSE, raised |-> FALSE, tables |-> <<>>, text |-> <<>>]
Called(raised, tables, text) ==
  [called |-> TRUE, raised |-> raised, tables |-> tables, text |-> text]

\* lines 88-123: the summary save_results writes
save_results(tables, text, method) ==
  [method |-> method,
   tables_found |-> IF tables # <<>> THEN Len(tables) ELSE 0,
   text_length |-> IF text # <<>> THEN JoinedLength(text) ELSE 0,
   word_count |-> IF text # <<>> THEN WordCount(text) ELSE 0]

NoSaved == [method |-> "", tables_found |-> 0, text_length |-> 0, word_count |-> 0]

\* the outcome of a single-document run: the calls made, what was kept
Outcome(raised, method, tables, text, shown, c, t, p, x) ==
  [raised |-> raised, method |-> method, tables |-> tables, text |-> text,
   summary |-> IF shown THEN save_results(tables, text, method) ELSE NoSaved,
   shown |-> shown, camelot |-> c, tabula |-> t, pdfplumber |-> p, textcall |-> x]

\* main with the Tabula branch saving under the first strategy's name
alternative_main_first_name(x) ==
  LET c == alt_extract_with_camelot(x.camelot)
      cl == Called(c.raised, c.tables, <<>>)
      xt == extract_text_with_pdfplumber(x.plumber)
      xl == Called(xt.raised, <<>>, xt.text)
  IN IF c.raised
       THEN Outcome(TRUE, "", <<>>, <<>>, FALSE, cl, NotCalled, NotCalled, NotCalled)
     ELSE IF c.tables # <<>>
       THEN Outcome(xt.raised, "camelot", c.tables, xt.text, ~xt.raised,
                    cl, NotCalled, NotCalled, xl)
     ELSE
       LET t == extract_with_tabula(x.tabula)
           tl == Called(t.raised, t.tables, <<>>)
       IN IF t.raised
            THEN Outcome(TRUE, "", <<>>, <<>>, FALSE, cl, tl, NotCalled, NotCalled)
          ELSE IF t.tables # <<>>
            THEN Outcome(xt.raised, "camelot", t.tables, xt.text, ~xt.raised,
                         cl, tl, NotCalled, xl)
          ELSE
            LET p == alt_extract_with_pdfplumber(x.plumber)
                pl == Called(p.raised, p.tables, <<>>)
            IN IF p.raised
                 THEN Outcome(TRUE, "", <<>>, <<>>, FALSE, cl, tl, pl, NotCalled)
               ELSE Outcome(xt.raised, "pdfplumber", p.tables, xt.text, ~xt.raised,
                            cl, tl, pl, xl)

\* alternative_pdf_extractor.main, lines 125-149
alternative_main(x) ==
  LET c == alt_extract_with_camelot(x.camelot)
      cl == Called(c.raised, c.tables, <<>>)
      xt == extract_text_with_pdfplumber(x.plumber)
      xl == Called(xt.raised, <<>>, xt.text)
  IN IF c.raised
       THEN Outcome(TRUE, "", <<>>, <<>>, FALSE, cl, NotCalled, NotCalled, NotCalled)
     ELSE IF c.tables # <<>>
       THEN Outcome(xt.raised, "camelot", c.tables, xt.text, ~xt.raised,
                    cl, NotCalled, NotCalled, xl)
     ELSE
       LET t == extract_with_tabula(x.tabula)
           tl == Called(t.raised, t.tables, <<>>)
       IN IF t.raised
            THEN Outcome(TRUE, "", <<>>, <<>>, FALSE, cl, tl, NotCalled, NotCalled)
          ELSE IF t.tables # <<>>
            THEN Outcome(xt.raised, "tabula", t.tables, xt.text, ~xt.raised,
                         cl, tl, NotCalled, xl)
          ELSE
            LET p == alt_extract_with_pdfplumber(x.plumber)
                pl == Called(p.raised, p.tables, <<>>)
            IN IF p.raised
                 THEN Outcome(TRUE, "", <<>>, <<>>, FALSE, cl, tl, pl, NotCalled)
               ELSE Outcome(xt.raised, "pdfplumber", p.tables, xt.text, ~xt.raised,
                            cl, tl, pl, xl)

\* ------------------------------------------------------------ streamlit_alternative_extractor
\* lines 49-88: the body of batch_pdf_processor.extract_with_camelot with
\* st.write in place of logging
st_extract_with_camelot(inp) == extract_with_camelot(inp)

\* lines 90-125: likewise for extract_with_pdfplumber
st_extract_with_pdfplumber(inp) == extract_with_pdfplumber(inp)

\* lines 127-144
st_extract_text_with_pdfplumber(inp) == extract_text_with_pdfplumber(inp)

\* main, lines 263-350, for an uploaded file: the chain and the result shown
streamlit_main(x) ==
  LET c == IF x.use_camelot THEN st_extract_with_camelot(x.camelot2)
           ELSE [raised |-> FALSE, tables |-> <<>>]
      cl == IF x.use_camelot THEN Called(c.raised, c.tables, <<>>) ELSE NotCalled
  IN IF c.raised
       THEN Outcome(TRUE, "", <<>>, <<>>, FALSE, cl, NotCalled, NotCalled, NotCalled)
     ELSE
       LET took == c.tables # <<>>
           xt == IF took THEN st_extract_text_with_pdfplumber(x.plumber)
                 ELSE [raised |-> FALSE, text |-> <<>>]
           xl == IF took THEN Called(xt.raised, <<>>, xt.text) ELSE NotCalled
           tables1 == IF took THEN c.tables ELSE <<>>
           method1 == IF took THEN "camelot" ELSE ""
       IN IF xt.raised
            THEN Outcome(TRUE, "", <<>>, <<>>, FALSE, cl, NotCalled, NotCalled, xl)
          ELSE IF tables1 = <<>> /\ x.use_pdfplumber
            THEN LET p == st_extract_with_pdfplumber(x.plumber)
                     pl == Called(p.raised, p.tables, p.text)
                 IN IF p.raised
                      THEN Outcome(TRUE, "", <<>>, <<>>, FALSE, cl, NotCalled, pl, xl)
                    ELSE Outcome(FALSE, "pdfplumber", p.tables, p.text,
                                 p.tables # <<>> \/ p.text # <<>>, cl, NotCalled, pl, xl)
          ELSE Outcome(FALSE, method1, tables1, xt.text,
                       tables1 # <<>> \/ xt.text # <<>>, cl, NotCalled, NotCalled, xl)

\* ------------------------------------------------------------ app.py, app_simple.py, app_enhanced.py
\* A string here is the sequence of its characters' kinds: "w" a visible
\* character, "s" a blank, "n" a line break.
\* bool(text.strip())
strip(text) == \E i \in 1..Len(text) : text[i] = "w"

\* what page.extract_text() may give: "", a blank string, a word
PageTexts == {<<>>, <<"s">>, <<"w">>}

\* a page as a text backend meets it; bad: extract_text raises
TextPages == {[text |-> t, bad |-> FALSE] : t \in PageTexts} \cup {[text |-> <<>>, bad |-> TRUE]}

\* what a text backend meets: whether the document opens, and its pages
BackendInputs ==
  {[opens |-> TRUE, pages |-> ps] : ps \in SeqsUpTo(TextPages, MaxPages)}
    \cup {[opens |-> FALSE, pages |-> <<>>]}

\* what docling is at import time and what docling.Document does
DoclingInputs ==
  {[available |-> FALSE, has_document |-> FALSE, raises |-> FALSE, text |-> <<>>],
   [available |-> TRUE, has_document |-> FALSE, raises |-> FALSE, text |-> <<>>],
   [available |-> TRUE, has_document |-> TRUE, raises |-> TRUE, text |-> <<>>]}
    \cup {[available |-> TRUE, has_document |-> TRUE, raises |-> FALSE, text |-> t] :
            t \in PageTexts}

\* app_enhanced.py lines 35-56
extract_text_with_docling(inp) ==
  IF ~inp.available \/ ~inp.has_document THEN <<>>
  ELSE IF inp.raises THEN <<>>
  ELSE inp.text

RECURSIVE pdfplumber_text(_, _)
\* the pdfplumber block: [exc, text] after the first n pages
pdfplumber_text(inp, n) ==
  IF ~inp.opens THEN [exc |-> TRUE, text |-> <<>>]
  ELSE IF n = 0 THEN [exc |-> FALSE, text |-> <<>>]
  ELSE LET before == pdfplumber_text(inp, n - 1)
           page == inp.pages[n]
       IN IF before.exc \/ page.bad THEN [exc |-> TRUE, text |-> <<>>]
          ELSE IF page.text # <<>>
            THEN [exc |-> FALSE, text |-> before.text \o page.text \o <<"n">>]
          ELSE before

RECURSIVE pypdf2_text(_, _)
\* the PyPDF2 block: [exc, text] after the first n pages
pypdf2_text(inp, n) ==
  IF ~inp.opens THEN [exc |-> TRUE, text |-> <<>>]
  ELSE IF n = 0 THEN [exc |-> FALSE, text |-> <<>>]
  ELSE LET before == pypdf2_text(inp, n - 1)
           page == inp.pages[n]
       IN IF before.exc \/ page.bad THEN [exc |-> TRUE, text |-> <<>>]
          ELSE [exc |-> FALSE, text |-> before.text \o page.text \o <<"n">>]

\* the outcome of a text chain: the text returned, the backends tried in
\* order, whether st.error was shown
TextOutcome(text, tried, error) == [text |-> text, tried |-> tried, error |-> error]

\* app.py lines 19-43 and app_simple.py lines 91-115, from the pdfplumber
\* block on; tried holds the backends used before it
plumber_then_pypdf2(x, tried) ==
  LET p == pdfplumber_text(x.plumber, Len(x.plumber.pages))
      tried_p == Append(tried, "pdfplumber")
  IN IF p.exc THEN TextOutcome(<<>>, tried_p, TRUE)
     ELSE IF strip(p.text) THEN TextOutcome(p.text, tried_p, FALSE)
     ELSE LET r == pypdf2_text(x.pypdf2, Len(x.pypdf2.pages))
              tried_r == Append(tried_p, "PyPDF2")
          IN IF r.exc THEN TextOutcome(<<>>, tried_r, TRUE)
             ELSE TextOutcome(r.text, tried_r, FALSE)

extract_text_from_pdf(x) == plumber_then_pypdf2(x, <<>>)

\* app_enhanced.py lines 58-88
enhanced_extract_text_from_pdf(x) ==
  IF x.docling.available
    THEN LET docling_text == extract_text_with_docling(x.docling)
         IN IF strip(docling_text) THEN TextOutcome(docling_text, <<"docling">>, FALSE)
            ELSE plumber_then_pypdf2(x, <<"docling">>)
  ELSE plumber_then_pypdf2(x, <<>>)

\* ------------------------------------------------------------ state
VARIABLES
  args,           \* the parsed command line and the input directory's state
  disk,           \* the output volume: "healthy", "faulty" (writes may fail), "folding"
  pc,             \* where the driver is: "main", "batch", "collect", "interrupted",
                  \* "test", "exit"; in the window "window", "files", "gui_test"
  exit_code,      \* the process's exit status, -1 while running
  job,            \* per document: "none", "queued", "running", "done", "collected"
  env,            \* per document: what its strategies returned, which writes failed
  future,         \* per document: the outcome process_single_pdf ended with
  fs,             \* the paths written under the output directory
  batch_summary,  \* the batch_summary dict of process_pdfs_batch
  batch_json,     \* what batch_summary.json holds
  batch_csv,      \* the rows of batch_summary.csv
  next_test,      \* test mode: index of the next file of pdf_files[:3]
  gui,            \* BatchProcessorGUI: its widgets, threads and log, and the
                  \* presses of Start Processing the user still makes
  first,          \* a batch run twice: what the first run met and ended with
  xin,            \* single-document programs: the document and libraries met
  xout,           \* single-document programs: what the run produced
  tin,            \* text chains of the app pages: the backends met
  tout            \* text chains of the app pages: what was returned

vars == <<args, disk, pc, exit_code, job, env, future, fs, batch_summary, batch_json,
          batch_csv, next_test, gui, first, xin, xout, tin, tout>>

\* the state of the single-document programs
xvars == <<xin, xout, tin, tout>>

\* the window and the memory of a first run
uvars == <<gui, first>>

NoRet == [raised |-> FALSE, tables |-> <<>>]
NoPlumberRet == [raised |-> FALSE, tables |-> <<>>, text |-> <<>>]
NoEnv == [cam |-> NoRet, pl |-> NoPlumberRet, fail |-> {}]
NoFuture == [raised |-> FALSE, value |-> [filename |-> 0, status |-> "pending"]]

NoSummary ==
  [started |-> FALSE, ended |-> FALSE, total_files |-> 0, processed_files |-> 0,
   successful_files |-> 0, failed_files |-> 0, total_tables_found |-> 0,
   file_results |-> <<>>]

\* batch_processor_gui lines 20-35 and 73-88: the window as constructed
NoGui ==
  [active |-> FALSE, input_dir |-> TRUE, output_dir |-> TRUE, button |-> "normal",
   progress |-> FALSE, status |-> "Ready", box |-> "none", thread |-> "none",
   finishes |-> 0, log_queue |-> <<>>, log_text |-> <<>>,
   presses |-> 0, starts |-> 0, threads |-> 0]

NoFirst ==
  [run |-> 1, env |-> [d \in Docs |-> NoEnv], future |-> [d \in Docs |-> NoFuture],
   counts |-> <<0, 0, 0, 0>>, written |-> FALSE]

\* --workers as argparse sees it: an integer, or text that int() rejects
WorkerArgs ==
  {[is_int |-> FALSE, val |-> 0]} \cup {[is_int |-> TRUE, val |-> w] : w \in -1..MaxWorkers}

Args == [input_exists : BOOLEAN, workers : WorkerArgs, test : BOOLEAN, n_pdfs : 0..MaxListed]

\* the *.pdf files of the input directory, in glob order
PdfFiles == 1..args.n_pdfs

\* the inputs of a single-document run, one record for every entry point
DetectCases == {i \in DetectInputs : i.lib # "ok" => i.found = 0}
CamelotCases == {i \in CamelotInputs : i.lib # "ok" => (i.lattice = 0 /\ i.stream = 0)}
PlumberCases ==
  {i \in PlumberInputs : (i.lib # "ok" => i.opens) /\ ((i.lib # "ok" \/ ~i.opens) => i.pages = <<>>)}

NoDetect == [lib |-> "ok", found |-> 0]
NoCamelot == [lib |-> "ok", lattice |-> 0, stream |-> 0]
NoPlumber == [lib |-> "ok", opens |-> TRUE, pages |-> <<>>]

RunInput(entry, c, t, c2, p, uc, up) ==
  [entry |-> entry, camelot |-> c, tabula |-> t, camelot2 |-> c2, plumber |-> p,
   use_camelot |-> uc, use_pdfplumber |-> up]

IdleInput == RunInput("idle", NoDetect, NoDetect, NoCamelot, NoPlumber, FALSE, FALSE)
IdleOutcome == Outcome(FALSE, "", <<>>, <<>>, FALSE, NotCalled, NotCalled, NotCalled, NotCalled)

NoBackend == [opens |-> TRUE, pages |-> <<>>]
NoDocling == [available |-> FALSE, has_document |-> FALSE, raises |-> FALSE, text |-> <<>>]
TextInput(app, g, p, r) == [app |-> app, docling |-> g, plumber |-> p, pypdf2 |-> r]
IdleText == TextInput("idle", NoDocling, NoBackend, NoBackend)

\* everything but the driver's position and the window
InitState ==
  /\ exit_code = -1
  /\ job = [d \in Docs |-> "none"]
  /\ env = [d \in Docs |-> NoEnv]
  /\ future = [d \in Docs |-> NoFuture]
  /\ fs = {}
  /\ batch_summary = NoSummary
  /\ batch_json = NoSummary
  /\ batch_csv = <<>>
  /\ next_test = 0
  /\ first = NoFirst
  /\ xin = IdleInput
  /\ xout = IdleOutcome
  /\ tin = IdleText
  /\ tout = TextOutcome(<<>>, <<>>, FALSE)

InitIdle ==
  /\ pc = "main"
  /\ gui = NoGui
  /\ InitState

\* a full batch of up to MaxDocs documents, a test-mode run on a directory of
\* up to MaxListed
Init ==
  /\ args \in Args
  /\ ~args.test => args.n_pdfs <= MaxDocs
  /\ disk \in {"healthy", "faulty"}
  /\ disk = "faulty" => args.n_pdfs <= MaxFaultDocs
  /\ InitIdle

\* ------------------------------------------------------------ main
\* lines 278-309: argument parsing and dispatch
Main ==
  /\ pc = "main"
  /\ IF ~args.workers.is_int THEN pc' = "exit" /\ exit_code' = 2
     ELSE IF ~args.input_exists THEN pc' = "exit" /\ exit_code' = 1
     ELSE IF args.test
       THEN IF Min(args.n_pdfs, TestLimit) > 0
              THEN pc' = "test" /\ exit_code' = exit_code
              ELSE pc' = "exit" /\ exit_code' = 0
     ELSE pc' = "batch" /\ exit_code' = exit_code
  /\ next_test' = IF pc' = "test" THEN 1 ELSE next_test
  /\ UNCHANGED <<args, disk, job, env, future, fs, batch_summary, batch_json, batch_csv>>
  /\ UNCHANGED uvars
  /\ UNCHANGED xvars

\* the storage faults a document's job may meet
Faults == IF disk = "faulty" THEN FaultSets ELSE {{}}

\* lines 299-305: one iteration of the test-mode loop
TestStep ==
  /\ pc = "test"
  /\ LET d == next_test
     IN \E cam \in CamelotReturns, pl \in PlumberReturns, fail \in Faults :
          LET r == process_single_pdf(d, cam, pl, fail, disk, fs)
          IN /\ fail \subseteq r.tried
             /\ env' = [env EXCEPT ![d] = [cam |-> cam, pl |-> pl, fail |-> fail]]
             /\ future' = [future EXCEPT ![d] = [raised |-> r.raised, value |-> r.value]]
             /\ fs' = fs \cup r.files
             /\ job' = [job EXCEPT ![d] = "done"]
             /\ IF r.raised THEN pc' = "exit" /\ exit_code' = 1 /\ next_test' = next_test
                ELSE IF d = Min(args.n_pdfs, TestLimit)
                  THEN pc' = "exit" /\ exit_code' = 0 /\ next_test' = next_test
                ELSE pc' = pc /\ exit_code' = exit_code /\ next_test' = d + 1
  /\ UNCHANGED <<args, disk, batch_summary, batch_json, batch_csv>>
  /\ UNCHANGED uvars
  /\ UNCHANGED xvars

\* ------------------------------------------------------------ process_pdfs_batch
\* lines 186-225: enumeration, the summary dict, the pool and the submissions
BatchStart ==
  /\ pc = "batch"
  /\ IF args.n_pdfs = 0
       THEN pc' = "exit" /\ exit_code' = 0 /\ UNCHANGED <<batch_summary, job>>
     ELSE /\ batch_summary' = [NoSummary EXCEPT !.started = TRUE,
                                                !.total_files = args.n_pdfs]
          /\ IF args.workers.val <= 0
               THEN pc' = "exit" /\ exit_code' = 1 /\ job' = job
               ELSE /\ pc' = "collect"
                    /\ exit_code' = exit_code
                    /\ job' = [d \in Docs |-> IF d \in PdfFiles THEN "queued" ELSE "none"]
  /\ UNCHANGED <<args, disk, env, future, fs, batch_json, batch_csv, next_test>>
  /\ UNCHANGED uvars
  /\ UNCHANGED xvars

\* the documents a pool thread is occupied with, its call returning or not
Running == {d \in Docs : job[d] \in {"running", "hung"}}
Queued == {d \in Docs : job[d] = "queued"}

\* the pool's threads serve the queue while the with block is open and until
\* shutdown(wait=True) has drained it
PoolOpen == pc \in {"collect", "interrupted"}

\* a pool thread taking a work item whatever the number of threads at work
StartJob_unbounded(d) ==
  /\ PoolOpen
  /\ job[d] = "queued"
  /\ \A e \in Queued : d <= e
  /\ job' = [job EXCEPT ![d] = "running"]
  /\ UNCHANGED <<args, disk, pc, exit_code, env, future, fs, batch_summary, batch_json,
                 batch_csv, next_test>>
  /\ UNCHANGED uvars
  /\ UNCHANGED xvars

\* a pool thread takes the oldest queued work item
StartJob(d) ==
  /\ PoolOpen
  /\ job[d] = "queued"
  /\ \A e \in Queued : d <= e
  /\ Cardinality(Running) < args.workers.val
  /\ job' = [job EXCEPT ![d] = "running"]
  /\ UNCHANGED <<args, disk, pc, exit_code, env, future, fs, batch_summary, batch_json,
                 batch_csv, next_test>>
  /\ UNCHANGED uvars
  /\ UNCHANGED xvars

\* what a document's job may meet: anything, or in the second of two runs on
\* unchanged input what it met in the first
EnvChoices(d) ==
  IF first.run = 2 THEN {first.env[d]}
  ELSE {[cam |-> cam, pl |-> pl, fail |-> fail] :
          cam \in CamelotReturns, pl \in PlumberReturns, fail \in Faults}

\* the pool thread runs process_single_pdf and sets the future
FinishJob(d) ==
  /\ PoolOpen
  /\ job[d] = "running"
  /\ \E e \in EnvChoices(d) :
       LET r == process_single_pdf(d, e.cam, e.pl, e.fail, disk, fs)
       IN /\ e.fail \subseteq r.tried
          /\ env' = [env EXCEPT ![d] = e]
          /\ future' = [future EXCEPT ![d] = [raised |-> r.raised, value |-> r.value]]
          /\ fs' = fs \cup r.files
  /\ job' = [job EXCEPT ![d] = "done"]
  /\ UNCHANGED <<args, disk, pc, exit_code, batch_summary, batch_json, batch_csv, next_test>>
  /\ UNCHANGED uvars
  /\ UNCHANGED xvars

\* lines 116-119: extract_with_camelot or extract_with_pdfplumber never returns
\* from the library call it is in; the pool thread stays in process_single_pdf
\* and the future is never set
Hang(d) ==
  /\ PoolOpen
  /\ job[d] = "running"
  /\ job' = [job EXCEPT ![d] = "hung"]
  /\ UNCHANGED <<args, disk, pc, exit_code, env, future, fs, batch_summary, batch_json,
                 batch_csv, next_test>>
  /\ UNCHANGED uvars
  /\ UNCHANGED xvars

\* the loop body with the except branch recording nothing for the document
record_result_drop(summary, d, fut) ==
  IF ~fut.raised
    THEN LET result == fut.value
             appended == [summary EXCEPT !.file_results = Append(@, result),
                                         !.processed_files = @ + 1]
         IN IF Get(result, "status", "none") = "success"
              THEN [appended EXCEPT !.successful_files = @ + 1,
                                    !.total_tables_found = @ + Get(result, "total_tables", 0)]
              ELSE [appended EXCEPT !.failed_files = @ + 1]
  ELSE [summary EXCEPT !.failed_files = @ + 1]

\* the loop body with the except branch leaving failed_files alone
record_result_uncounted(summary, d, fut) ==
  IF ~fut.raised
    THEN LET result == fut.value
             appended == [summary EXCEPT !.file_results = Append(@, result),
                                         !.processed_files = @ + 1]
         IN IF Get(result, "status", "none") = "success"
              THEN [appended EXCEPT !.successful_files = @ + 1,
                                    !.total_tables_found = @ + Get(result, "total_tables", 0)]
              ELSE [appended EXCEPT !.failed_files = @ + 1]
  ELSE [summary EXCEPT !.file_results = Append(@, error_summary(d, fut.value.error))]

\* the loop body assigning total_tables_found instead of adding to it
record_result_overwrite(summary, d, fut) ==
  IF ~fut.raised
    THEN LET result == fut.value
             appended == [summary EXCEPT !.file_results = Append(@, result),
                                         !.processed_files = @ + 1]
         IN IF Get(result, "status", "none") = "success"
              THEN [appended EXCEPT !.successful_files = @ + 1,
                                    !.total_tables_found = Get(result, "total_tables", 0)]
              ELSE [appended EXCEPT !.failed_files = @ + 1]
  ELSE [summary EXCEPT !.failed_files = @ + 1,
                       !.file_results = Append(@, error_summary(d, fut.value.error))]

\* the loop body appending the entry of a returned result twice
record_result_twice(summary, d, fut) ==
  IF ~fut.raised
    THEN LET result == fut.value
             appended == [summary EXCEPT !.file_results = Append(Append(@, result), result),
                                         !.processed_files = @ + 1]
         IN IF Get(result, "status", "none") = "success"
              THEN [appended EXCEPT !.successful_files = @ + 1,
                                    !.total_tables_found = @ + Get(result, "total_tables", 0)]
              ELSE [appended EXCEPT !.failed_files = @ + 1]
  ELSE [summary EXCEPT !.failed_files = @ + 1,
                       !.file_results = Append(@, error_summary(d, fut.value.error))]

\* lines 229-248: what one iteration of the as_completed loop does to the dict
record_result(summary, d, fut) ==
  IF ~fut.raised
    THEN LET result == fut.value
             appended == [summary EXCEPT !.file_results = Append(@, result),
                                         !.processed_files = @ + 1]
         IN IF Get(result, "status", "none") = "success"
              THEN [appended EXCEPT !.successful_files = @ + 1,
                                    !.total_tables_found = @ + Get(result, "total_tables", 0)]
              ELSE [appended EXCEPT !.failed_files = @ + 1]
  ELSE [summary EXCEPT !.failed_files = @ + 1,
                       !.file_results = Append(@, error_summary(d, fut.value.error))]

\* as_completed yields a finished future
Collect(d) ==
  /\ pc = "collect"
  /\ job[d] = "done"
  /\ batch_summary' = record_result(batch_summary, d, future[d])
  /\ job' = [job EXCEPT ![d] = "collected"]
  /\ UNCHANGED <<args, disk, pc, exit_code, env, future, fs, batch_json, batch_csv, next_test>>
  /\ UNCHANGED uvars
  /\ UNCHANGED xvars

\* line 260
successful_results(summary) ==
  SelectSeq(summary.file_results, LAMBDA r : Get(r, "status", "none") = "success")

\* lines 250-252
finalize(summary) == [summary EXCEPT !.ended = TRUE]

\* the summary closed and saved as soon as every job has ended, results still
\* waiting to be consumed
Finalize_early ==
  /\ pc = "collect"
  /\ \A d \in PdfFiles : job[d] \in {"done", "collected"}
  /\ batch_summary' = finalize(batch_summary)
  /\ batch_json' = batch_summary'
  /\ LET rows == successful_results(batch_summary')
     IN /\ batch_csv' = rows
        /\ fs' = fs \cup {<<OutputRoot, "batch_summary_json", 0>>}
                    \cup (IF rows # <<>> THEN {<<OutputRoot, "batch_summary_csv", 0>>} ELSE {})
  /\ pc' = "exit"
  /\ exit_code' = 0
  /\ UNCHANGED <<args, disk, job, env, future, next_test>>
  /\ UNCHANGED uvars
  /\ UNCHANGED xvars

\* lines 250-276: the loop is exhausted and the pool shut down
Finalize ==
  /\ pc = "collect"
  /\ \A d \in PdfFiles : job[d] = "collected"
  /\ batch_summary' = finalize(batch_summary)
  /\ batch_json' = batch_summary'
  /\ LET rows == successful_results(batch_summary')
     IN /\ batch_csv' = rows
        /\ fs' = fs \cup {<<OutputRoot, "batch_summary_json", 0>>}
                    \cup (IF rows # <<>> THEN {<<OutputRoot, "batch_summary_csv", 0>>} ELSE {})
  /\ pc' = "exit"
  /\ exit_code' = 0
  /\ UNCHANGED <<args, disk, job, env, future, next_test>>
  /\ UNCHANGED uvars
  /\ UNCHANGED xvars

\* ------------------------------------------------------------ single-document runs
bvars == <<args, disk, pc, exit_code, job, env, future, fs, batch_summary, batch_json,
           batch_csv, next_test, gui, first>>

\* the state of the text chains
tvars == <<tin, tout>>

\* python alternative_pdf_extractor.py <pdf>
RunAlternative ==
  /\ xin.entry = "idle"
  /\ \E c \in DetectCases, t \in DetectCases, p \in PlumberCases :
       /\ xin' = RunInput("alternative_main", c, t, NoCamelot, p, FALSE, FALSE)
       /\ xout' = alternative_main(xin')
  /\ UNCHANGED tvars
  /\ UNCHANGED bvars

\* a file uploaded to the Streamlit page, with the sidebar's two checkboxes
RunStreamlit ==
  /\ xin.entry = "idle"
  /\ \E c2 \in CamelotCases, p \in PlumberCases, uc \in BOOLEAN, up \in BOOLEAN :
       /\ xin' = RunInput("streamlit_main", NoDetect, NoDetect, c2, p, uc, up)
       /\ xout' = streamlit_main(xin')
  /\ UNCHANGED tvars
  /\ UNCHANGED bvars

StrategyNames ==
  {"extract_with_camelot", "extract_with_pdfplumber", "alt_extract_with_camelot",
   "extract_with_tabula", "alt_extract_with_pdfplumber"}

\* one strategy called on its own
strategy_call(fn, x) ==
  IF fn = "extract_with_camelot"
    THEN LET r == extract_with_camelot(x.camelot2)
         IN Outcome(r.raised, fn, r.tables, <<>>, FALSE,
                    Called(r.raised, r.tables, <<>>), NotCalled, NotCalled, NotCalled)
  ELSE IF fn = "extract_with_pdfplumber"
    THEN LET r == extract_with_pdfplumber(x.plumber)
         IN Outcome(r.raised, fn, r.tables, r.text, FALSE,
                    NotCalled, NotCalled, Called(r.raised, r.tables, r.text), NotCalled)
  ELSE IF fn = "alt_extract_with_camelot"
    THEN LET r == alt_extract_with_camelot(x.camelot)
         IN Outcome(r.raised, fn, r.tables, <<>>, FALSE,
                    Called(r.raised, r.tables, <<>>), NotCalled, NotCalled, NotCalled)
  ELSE IF fn = "extract_with_tabula"
    THEN LET r == extract_with_tabula(x.tabula)
         IN Outcome(r.raised, fn, r.tables, <<>>, FALSE,
                    NotCalled, Called(r.raised, r.tables, <<>>), NotCalled, NotCalled)
  ELSE LET r == alt_extract_with_pdfplumber(x.plumber)
       IN Outcome(r.raised, fn, r.tables, <<>>, FALSE,
                  NotCalled, NotCalled, Called(r.raised, r.tables, <<>>), NotCalled)

CallStrategy ==
  /\ xin.entry = "idle"
  /\ \E fn \in StrategyNames :
       \E c \in (IF fn = "alt_extract_with_camelot" THEN DetectCases ELSE {NoDetect}),
          t \in (IF fn = "extract_with_tabula" THEN DetectCases ELSE {NoDetect}),
          c2 \in (IF fn = "extract_with_camelot" THEN CamelotCases ELSE {NoCamelot}),
          p \in (IF fn \in {"extract_with_pdfplumber", "alt_extract_with_pdfplumber"}
                 THEN PlumberCases ELSE {NoPlumber}) :
         /\ xin' = RunInput(fn, c, t, c2, p, FALSE, FALSE)
         /\ xout' = strategy_call(fn, xin')
  /\ UNCHANGED tvars
  /\ UNCHANGED bvars

InitExtract ==
  /\ args = [input_exists |-> TRUE, workers |-> [is_int |-> TRUE, val |-> 1],
             test |-> FALSE, n_pdfs |-> 0]
  /\ disk = "healthy"
  /\ InitIdle

NextExtract ==
  \/ RunAlternative
  \/ RunStreamlit
  \/ CallStrategy

SpecExtract == InitExtract /\ [][NextExtract]_vars

\* ------------------------------------------------------------ interruption
\* Ctrl-C while the main thread is in the as_completed loop: KeyboardInterrupt
\* passes `except Exception` and reaches the with block's __exit__
Interrupt ==
  /\ pc = "collect"
  /\ ~gui.active
  /\ pc' = "interrupted"
  /\ UNCHANGED <<args, disk, exit_code, job, env, future, fs, batch_summary, batch_json,
                 batch_csv, next_test>>
  /\ UNCHANGED uvars
  /\ UNCHANGED xvars

\* __exit__ is shutdown(wait=True): it returns when the queue is drained and
\* every thread has ended; then the KeyboardInterrupt ends the process
PoolShutdown ==
  /\ pc = "interrupted"
  /\ \A d \in PdfFiles : job[d] \in {"done", "collected"}
  /\ pc' = "exit"
  /\ exit_code' = 130
  /\ UNCHANGED <<args, disk, job, env, future, fs, batch_summary, batch_json, batch_csv,
                 next_test>>
  /\ UNCHANGED uvars
  /\ UNCHANGED xvars

\* ------------------------------------------------------------ a second run
\* the same command once more: input directory, output directory and
\* arguments unchanged, the first run's files still in place
Rerun ==
  /\ pc = "exit"
  /\ first.run = 1
  /\ first' = [run |-> 2, env |-> env, future |-> future,
               counts |-> <<batch_summary.total_files, batch_summary.successful_files,
                            batch_summary.failed_files, batch_summary.total_tables_found>>,
               written |-> batch_summary.ended]
  /\ pc' = "main"
  /\ exit_code' = -1
  /\ job' = [d \in Docs |-> "none"]
  /\ env' = [d \in Docs |-> NoEnv]
  /\ future' = [d \in Docs |-> NoFuture]
  /\ batch_summary' = NoSummary
  /\ next_test' = 0
  /\ UNCHANGED <<args, disk, fs, batch_json, batch_csv, gui>>
  /\ UNCHANGED xvars

\* ------------------------------------------------------------ batch_processor_gui
\* a message of the log: <<kind, document, number>>
Message(kind, d, n) == <<kind, d, n>>

log_message(g, msgs) == [g EXCEPT !.log_queue = @ \o msgs]

\* start_processing leaving the button enabled while the thread runs
start_processing_enabled ==
  /\ gui.active
  /\ gui.button = "normal"
  /\ gui.presses > 0
  /\ IF ~gui.input_dir \/ ~gui.output_dir \/ ~args.input_exists
       THEN /\ gui' = [gui EXCEPT !.box = "error", !.presses = @ - 1]
            /\ UNCHANGED <<pc, exit_code, job, env, future, batch_summary, next_test>>
       ELSE /\ gui' = [gui EXCEPT !.progress = TRUE,
                                  !.status = "Processing...", !.thread = "running",
                                  !.presses = @ - 1, !.starts = @ + 1, !.threads = @ + 1]
            /\ pc' = "files"
            /\ exit_code' = -1
            /\ job' = [d \in Docs |-> "none"]
            /\ env' = [d \in Docs |-> NoEnv]
            /\ future' = [d \in Docs |-> NoFuture]
            /\ batch_summary' = NoSummary
            /\ next_test' = 0
  /\ UNCHANGED <<args, disk, fs, batch_json, batch_csv, first>>
  /\ UNCHANGED xvars

\* lines 116-138: the Start Processing button is pressed (a disabled button
\* takes no press).  The thread started runs process_files from its first
\* line: what an earlier run left in memory is gone, its files are not.
start_processing ==
  /\ gui.active
  /\ gui.button = "normal"
  /\ gui.presses > 0
  /\ IF ~gui.input_dir \/ ~gui.output_dir \/ ~args.input_exists
       THEN /\ gui' = [gui EXCEPT !.box = "error", !.presses = @ - 1]
            /\ UNCHANGED <<pc, exit_code, job, env, future, batch_summary, next_test>>
       ELSE /\ gui' = [gui EXCEPT !.button = "disabled", !.progress = TRUE,
                                  !.status = "Processing...", !.thread = "running",
                                  !.presses = @ - 1, !.starts = @ + 1, !.threads = @ + 1]
            /\ pc' = "files"
            /\ exit_code' = -1
            /\ job' = [d \in Docs |-> "none"]
            /\ env' = [d \in Docs |-> NoEnv]
            /\ future' = [d \in Docs |-> NoFuture]
            /\ batch_summary' = NoSummary
            /\ next_test' = 0
  /\ UNCHANGED <<args, disk, fs, batch_json, batch_csv, first>>
  /\ UNCHANGED xvars

\* lines 143-156 and 165-169: process_files up to the test loop or the call of
\* process_pdfs_batch; self.workers.get() raises on text that is no integer
process_files ==
  /\ pc = "files"
  /\ IF ~args.workers.is_int
       THEN pc' = "exit" /\ exit_code' = 1 /\ gui' = gui /\ next_test' = next_test
     ELSE
       LET header == <<Message("starting", 0, 0), Message("input_directory", 0, 0),
                       Message("output_directory", 0, 0),
                       Message("workers", 0, args.workers.val)>>
       IN IF args.test
            THEN IF Min(args.n_pdfs, TestLimit) > 0
                   THEN /\ gui' = log_message(gui, Append(header, Message("test_mode", 0, 0)))
                        /\ pc' = "gui_test" /\ exit_code' = exit_code /\ next_test' = 1
                   ELSE /\ gui' = log_message(gui, header \o <<Message("test_mode", 0, 0),
                                                              Message("no_files", 0, 0)>>)
                        /\ pc' = "exit" /\ exit_code' = 0 /\ next_test' = next_test
          ELSE /\ gui' = log_message(gui, header)
               /\ pc' = "batch" /\ exit_code' = exit_code /\ next_test' = next_test
  /\ UNCHANGED <<args, disk, job, env, future, fs, batch_summary, batch_json, batch_csv, first>>
  /\ UNCHANGED xvars

\* lines 158-164: one iteration of the window's test-mode loop
GuiTestStep ==
  /\ pc = "gui_test"
  /\ LET d == next_test
     IN \E cam \in CamelotReturns, pl \in PlumberReturns, fail \in Faults :
          LET r == process_single_pdf(d, cam, pl, fail, disk, fs)
              result == r.value
          IN /\ fail \subseteq r.tried
             /\ env' = [env EXCEPT ![d] = [cam |-> cam, pl |-> pl, fail |-> fail]]
             /\ future' = [future EXCEPT ![d] = [raised |-> r.raised, value |-> r.value]]
             /\ fs' = fs \cup r.files
             /\ job' = [job EXCEPT ![d] = "done"]
             /\ IF r.raised
                  THEN /\ gui' = log_message(gui, <<Message("processing", d, 0)>>)
                       /\ pc' = "exit" /\ exit_code' = 1 /\ next_test' = next_test
                ELSE /\ gui' = log_message(gui,
                          <<Message("processing", d, 0),
                            IF Get(result, "status", "none") = "success"
                              THEN Message("completed", d, Get(result, "total_tables", 0))
                              ELSE Message("failed", d, 0)>>)
                     /\ IF d = Min(args.n_pdfs, TestLimit)
                          THEN pc' = "exit" /\ exit_code' = 0 /\ next_test' = next_test
                          ELSE pc' = pc /\ exit_code' = exit_code /\ next_test' = d + 1
  /\ UNCHANGED <<args, disk, batch_summary, batch_json, batch_csv, first>>
  /\ UNCHANGED xvars

\* the end of process_files with the call of root.after in the try block,
\* after the completed message, and no finally
process_files_end_no_finally ==
  /\ pc = "exit"
  /\ gui.thread = "running"
  /\ gui' = [log_message(gui, <<IF exit_code = 0 THEN Message("batch_completed", 0, 0)
                                ELSE Message("error", 0, 0)>>)
               EXCEPT !.thread = IF exit_code = 0 THEN "ended" ELSE "dead",
                      !.threads = @ - 1]
  /\ UNCHANGED <<args, disk, pc, exit_code, job, env, future, fs, batch_summary, batch_json,
                 batch_csv, next_test, first>>
  /\ UNCHANGED xvars

\* lines 171-177: the end of process_files, after the try block's work: the
\* completed or the error message, root.after(0, processing_finished), and the
\* thread ends
process_files_end ==
  /\ pc = "exit"
  /\ gui.thread = "running"
  /\ gui' = [log_message(gui, <<IF exit_code = 0 THEN Message("batch_completed", 0, 0)
                                ELSE Message("error", 0, 0)>>)
               EXCEPT !.thread = "ended", !.threads = @ - 1]
  /\ UNCHANGED <<args, disk, pc, exit_code, job, env, future, fs, batch_summary, batch_json,
                 batch_csv, next_test, first>>
  /\ UNCHANGED xvars

\* lines 179-184, run by the main loop for root.after(0, ...)
processing_finished ==
  /\ gui.thread = "ended"
  /\ gui' = [gui EXCEPT !.button = "normal", !.progress = FALSE, !.status = "Ready",
                        !.box = "info", !.thread = "none", !.finishes = @ + 1]
  /\ UNCHANGED <<args, disk, pc, exit_code, job, env, future, fs, batch_summary, batch_json,
                 batch_csv, next_test, first>>
  /\ UNCHANGED xvars

\* lines 104-114: the timer moves what is queued into the log widget
update_log ==
  /\ gui.active
  /\ gui.log_queue # <<>>
  /\ gui' = [gui EXCEPT !.log_text = @ \o gui.log_queue, !.log_queue = <<>>]
  /\ UNCHANGED <<args, disk, pc, exit_code, job, env, future, fs, batch_summary, batch_json,
                 batch_csv, next_test, first>>
  /\ UNCHANGED xvars

\* ------------------------------------------------------------ text chains
\* a file uploaded to one of the converter pages
ExtractText ==
  /\ tin.app = "idle"
  /\ \E app \in {"app", "app_simple", "app_enhanced"} :
       \E g \in (IF app = "app_enhanced" THEN DoclingInputs ELSE {NoDocling}),
          p \in BackendInputs, r \in BackendInputs :
         /\ tin' = TextInput(app, g, p, r)
         /\ tout' = IF app = "app_enhanced" THEN enhanced_extract_text_from_pdf(tin')
                    ELSE extract_text_from_pdf(tin')
  /\ UNCHANGED <<xin, xout>>
  /\ UNCHANGED bvars

Next ==
  \/ Main
  \/ TestStep
  \/ BatchStart
  \/ \E d \in Docs : StartJob(d)
  \/ \E d \in Docs : FinishJob(d)
  \/ \E d \in Docs : Collect(d)
  \/ Finalize

Spec == Init /\ [][Next]_vars

\* a batch on a healthy volume that Ctrl-C may interrupt
InitInterrupt ==
  /\ args \in Args
  /\ ~args.test => args.n_pdfs <= MaxDocs
  /\ disk = "healthy"
  /\ InitIdle

NextInterrupt ==
  \/ Next
  \/ Interrupt
  \/ PoolShutdown

SpecInterrupt == InitInterrupt /\ [][NextInterrupt]_vars

\* an output volume that ignores the case of names
InitNames ==
  /\ args \in Args
  /\ ~args.test => args.n_pdfs <= MaxDocs
  /\ disk = "folding"
  /\ InitIdle

SpecNames == InitNames /\ [][Next]_vars

\* a full batch run twice
InitRerun ==
  /\ args \in Args
  /\ ~args.test
  /\ args.n_pdfs <= MaxRerunDocs
  /\ disk = "healthy"
  /\ InitIdle

NextRerun ==
  \/ Main
  \/ BatchStart
  \/ \E d \in Docs : StartJob(d)
  \/ \E d \in Docs : FinishJob(d)
  \/ \E d \in Docs : Collect(d)
  \/ Finalize
  \/ Rerun

SpecRerun == InitRerun /\ [][NextRerun]_vars

\* the desktop window, and the command line in test mode; storage faults are
\* tried on the smaller directories
InitUi ==
  /\ args \in Args
  /\ disk \in {"healthy", "faulty"}
  /\ disk = "faulty" => args.n_pdfs < MaxGuiDocs
  /\ \/ /\ pc = "window"
        /\ gui \in {[NoGui EXCEPT !.active = TRUE, !.input_dir = i, !.output_dir = o,
                                   !.presses = 1] :
                      i \in BOOLEAN, o \in BOOLEAN}
        /\ ~args.test => args.n_pdfs <= MaxGuiDocs
     \/ /\ pc = "main"
        /\ gui = NoGui
        /\ args.test
  /\ InitState

NextUi ==
  \/ Main
  \/ TestStep
  \/ start_processing
  \/ process_files
  \/ GuiTestStep
  \/ BatchStart
  \/ \E d \in Docs : StartJob(d)
  \/ \E d \in Docs : FinishJob(d)
  \/ \E d \in Docs : Collect(d)
  \/ Finalize
  \/ process_files_end
  \/ processing_finished
  \/ update_log

SpecUi == InitUi /\ [][NextUi]_vars

\* a full batch in which a library call may hang; every thread that can take
\* a step eventually does
InitHang ==
  /\ args \in Args
  /\ ~args.test
  /\ args.n_pdfs <= MaxHangDocs
  /\ disk = "healthy"
  /\ InitIdle

NextHang ==
  \/ Main
  \/ BatchStart
  \/ \E d \in Docs : StartJob(d)
  \/ \E d \in Docs : FinishJob(d)
  \/ \E d \in Docs : Hang(d)
  \/ \E d \in Docs : Collect(d)
  \/ Finalize

\* the steps of the program's own threads
Progress ==
  \/ Main
  \/ BatchStart
  \/ \E d \in Docs : StartJob(d)
  \/ \E d \in Docs : FinishJob(d)
  \/ \E d \in Docs : Collect(d)
  \/ Finalize

SpecHang == InitHang /\ [][NextHang]_vars /\ WF_vars(Progress)

\* one session of the window, Start Processing pressed up to MaxPresses times
\* on a small input directory; every thread that can take a step eventually
\* does, the user presses or not
InitWindow ==
  /\ args \in Args
  /\ args.n_pdfs <= MaxWindowDocs
  /\ disk = "healthy"
  /\ pc = "window"
  /\ gui \in {[NoGui EXCEPT !.active = TRUE, !.input_dir = i, !.output_dir = o,
                             !.presses = MaxPresses] :
                i \in BOOLEAN, o \in BOOLEAN}
  /\ InitState

\* the steps of the window's main loop and of its background thread
WindowProgress ==
  \/ process_files
  \/ GuiTestStep
  \/ BatchStart
  \/ \E d \in Docs : StartJob(d)
  \/ \E d \in Docs : FinishJob(d)
  \/ \E d \in Docs : Collect(d)
  \/ Finalize
  \/ process_files_end
  \/ processing_finished
  \/ update_log

NextWindow ==
  \/ start_processing
  \/ WindowProgress

SpecWindow == InitWindow /\ [][NextWindow]_vars /\ WF_vars(WindowProgress)

\* the text chains of the converter pages
InitText ==
  /\ args = [input_exists |-> TRUE, workers |-> [is_int |-> TRUE, val |-> 1],
             test |-> FALSE, n_pdfs |-> 0]
  /\ disk = "healthy"
  /\ InitIdle

NextText == ExtractText

SpecText == InitText /\ [][NextText]_vars

\* ------------------------------------------------------------ properties
\* the batch ran to its end and the summary was finalized
Finalized == pc = "exit" /\ batch_summary.ended

\* process_single_pdf has ended for the document
Finished(d) == job[d] \in {"done", "collected"}

\* the positions of a document in file_results
EntriesFor(d) ==
  {i \in 1..Len(batch_summary.file_results) : batch_summary.file_results[i].filename = d}

\* what the document's own strategies and own storage faults lead to
OwnOutcome(d) == process_single_pdf(d, env[d].cam, env[d].pl, env[d].fail, disk, {})

FilesIn(dir) == {p \in fs : p[1] = dir}

\* no strategy gave the document a table or any text
AllEmpty(d) == env[d].cam.tables = <<>> /\ env[d].pl.tables = <<>> /\ env[d].pl.text = <<>>

\* the job ended in failure: an error summary or an exception out of the worker
Failed(d) == future[d].raised \/ future[d].value.status = "error"

Counts(s) == <<s.total_files, s.successful_files, s.failed_files, s.total_tables_found>>

\* C1: a finalized batch summary holds exactly one file_results entry for each
\* enumerated document, whatever mix of successes, error results and raised
\* exceptions the jobs ended with.
C1_OneEntryPerDocument ==
  Finalized =>
    /\ batch_summary.total_files = args.n_pdfs
    /\ Len(batch_summary.file_results) = batch_summary.total_files
    /\ \A d \in PdfFiles : Cardinality(EntriesFor(d)) = 1

C1_Witness ==
  /\ Finalized
  /\ \E a, b \in PdfFiles :
       /\ future[a].raised
       /\ ~future[b].raised
       /\ future[b].value.status = "error"

\* C2: a document for which every strategy yields nothing ends with status
\* "error", and is recorded in the batch as an error entry.
C2_AllEmptyIsError ==
  \A d \in Docs :
    (Finished(d) /\ AllEmpty(d) /\ ~future[d].raised) =>
      /\ future[d].value.status = "error"
      /\ \A i \in EntriesFor(d) : batch_summary.file_results[i].status = "error"

\* C3: doc1 with 2 tables from the first strategy, doc2 with 1 table and text
\* from the second only, doc3 with nothing: the finalized summary counts 3
\* files, 2 successful, 1 failed and 3 tables.
C3_Scenario ==
  (/\ Finalized
   /\ args.n_pdfs = 3
   /\ Len(env[1].cam.tables) = 2 /\ env[1].pl.tables = <<>>
   /\ env[2].cam.tables = <<>> /\ Len(env[2].pl.tables) = 1 /\ env[2].pl.text # <<>>
   /\ AllEmpty(3))
    => Counts(batch_summary) = <<3, 2, 1, 3>>

\* the first strategy of each chain ends without a table, the second finds some
SecondOnlyAlternative ==
  /\ xin.entry = "alternative_main"
  /\ alt_extract_with_camelot(xin.camelot).tables = <<>>
  /\ extract_with_tabula(xin.tabula).tables # <<>>

SecondOnlyStreamlit ==
  /\ xin.entry = "streamlit_main"
  /\ xin.use_camelot /\ xin.use_pdfplumber
  /\ st_extract_with_camelot(xin.camelot2).tables = <<>>
  /\ st_extract_with_pdfplumber(xin.plumber).tables # <<>>

\* C4: when the first strategy yields no table and the second yields some, the
\* run is attributed to the second strategy, keeps the second's tables, and
\* ends without an error.
C4_SecondStrategyWins ==
  /\ SecondOnlyAlternative =>
       /\ xout.method = "tabula" /\ xout.summary.method = "tabula"
       /\ xout.tables = extract_with_tabula(xin.tabula).tables
       /\ ~xout.raised /\ xout.shown
  /\ SecondOnlyStreamlit =>
       /\ xout.method = "pdfplumber" /\ xout.summary.method = "pdfplumber"
       /\ xout.tables = st_extract_with_pdfplumber(xin.plumber).tables
       /\ ~xout.raised /\ xout.shown

C4_Witness ==
  /\ SecondOnlyAlternative
  /\ xin.camelot.lib = "ok" /\ xin.camelot.found < 0
  /\ xout.method = "tabula"
  /\ Len(xout.tables) = MaxFound

RECURSIVE RecordedInOrder(_)
\* the summary the loop would build had the futures completed in submission order
RecordedInOrder(k) ==
  IF k = 0 THEN [NoSummary EXCEPT !.started = TRUE, !.total_files = args.n_pdfs]
  ELSE record_result(RecordedInOrder(k - 1), k, future[k])

\* C5: whatever order the futures completed in, the finalized counts are the
\* ones submission order would have given.
C5_OrderIndependent ==
  Finalized => Counts(batch_summary) = Counts(RecordedInOrder(args.n_pdfs))

C5_Witness ==
  /\ Finalized
  /\ args.n_pdfs = 3
  /\ batch_summary.file_results[1].filename = 3
  /\ batch_summary.file_results[2].filename = 1
  /\ batch_summary.file_results[1].total_tables # batch_summary.file_results[3].total_tables

\* C6: a document whose job raises is recorded once, as an error, and counted
\* in failed_files; the run still collects every other document, each with the
\* result its own inputs give.
C6_FailureIsolated ==
  (pc = "exit" /\ \E d \in Docs : job[d] = "collected") =>
    /\ Finalized
    /\ batch_summary.failed_files = Cardinality({d \in PdfFiles : Failed(d)})
    /\ \A d \in PdfFiles :
         /\ job[d] = "collected"
         /\ \E i \in 1..Len(batch_summary.file_results) :
              /\ EntriesFor(d) = {i}
              /\ IF future[d].raised
                   THEN batch_summary.file_results[i].status = "error"
                   ELSE /\ ~OwnOutcome(d).raised
                        /\ batch_summary.file_results[i] = OwnOutcome(d).value

C6_Witness ==
  /\ Finalized
  /\ \E a, b \in PdfFiles :
       /\ future[a].raised
       /\ ~future[b].raised
       /\ future[b].value.status = "success"
       /\ future[b].value.total_tables > 0

\* --workers is a positive integer and the input directory exists
ValidConfig == args.input_exists /\ args.workers.is_int /\ args.workers.val > 0

\* C7: with a valid configuration and documents to process, the run ends with
\* batch_summary.json written, start and end time set.
C7_SummaryAlwaysWritten ==
  (pc = "exit" /\ ValidConfig /\ args.n_pdfs >= 1) =>
    /\ <<OutputRoot, "batch_summary_json", 0>> \in fs
    /\ batch_json.started /\ batch_json.ended

\* C8: what a document leaves in its output directory, what its job returns
\* and what the batch records for it follow from its own extraction and its
\* own storage faults alone, whatever failed for the other documents.
C8_StorageIsolated ==
  \A b \in Docs :
    Finished(b) =>
      /\ FilesIn(pdf_dir_of(b, disk)) = OwnOutcome(b).files
      /\ future[b] = [raised |-> OwnOutcome(b).raised, value |-> OwnOutcome(b).value]
      /\ \A i \in EntriesFor(b) :
           ~future[b].raised => batch_summary.file_results[i] = OwnOutcome(b).value

C8_Witness ==
  \E a, b \in Docs :
    /\ a # b
    /\ Finished(a) /\ Finished(b)
    /\ env[a].fail \cap TableTargets # {}
    /\ env[b].fail = {}
    /\ SummaryTarget \in {<<p[2], p[3]>> : p \in FilesIn(pdf_dir_of(b, disk))}
    /\ Cardinality(FilesIn(pdf_dir_of(b, disk))) > 1

ConfigError == ~args.input_exists \/ ~args.workers.is_int \/ args.workers.val <= 0

\* C9: with a missing input directory or a worker count that is no positive
\* integer, no document is processed and the process exits non-zero.
C9_ConfigErrorFatal ==
  ConfigError =>
    /\ \A d \in Docs : job[d] = "none"
    /\ pc = "exit" => exit_code # 0

\* the strategy call as a whole fails: its library is unusable, the document
\* cannot be read, or every detection it attempts raises
StrategyFails(x) ==
  IF x.entry = "extract_with_camelot"
    THEN x.camelot2.lib # "ok" \/ (x.camelot2.lattice < 0 /\ x.camelot2.stream < 0)
  ELSE IF x.entry = "alt_extract_with_camelot"
    THEN x.camelot.lib # "ok" \/ x.camelot.found < 0
  ELSE IF x.entry = "extract_with_tabula"
    THEN x.tabula.lib # "ok" \/ x.tabula.found < 0
  ELSE \/ x.plumber.lib # "ok"
       \/ ~x.plumber.opens
       \/ \E k \in 1..Len(x.plumber.pages) : x.plumber.pages[k].bad

\* C10: no strategy call lets an exception out, and a call that fails hands
\* back no table and no text.
C10_StrategiesContain ==
  xin.entry \in StrategyNames =>
    /\ ~xout.raised
    /\ StrategyFails(xin) => (xout.tables = <<>> /\ xout.text = <<>>)

C10_Witness ==
  /\ xin.entry = "extract_with_pdfplumber"
  /\ xin.plumber.lib = "ok" /\ xin.plumber.opens
  /\ \E k \in 1..Len(xin.plumber.pages) : xin.plumber.pages[k].bad
  /\ ~xout.raised /\ xout.tables = <<>> /\ xout.text = <<>>

\* some strategy found a table for the document; some strategy found text
HasTables(d) == env[d].cam.tables # <<>> \/ env[d].pl.tables # <<>>
HasText(d) == env[d].pl.text # <<>>

\* C11: a document whose job returned a summary with tables but no text, or
\* with text but no table, and with every write succeeding, has status
\* "partial" and so is not reported as "success".
C11_PartialIsNotSuccess ==
  \A d \in Docs :
    (Finished(d) /\ ~future[d].raised /\ env[d].fail = {} /\ HasTables(d) # HasText(d)) =>
      future[d].value.status = "partial"

\* C12: never more documents are being processed than --workers allows, and
\* once a result has been consumed every enumerated document has been
\* submitted to the pool.
C12_BoundedPool ==
  /\ Running # {} => Cardinality(Running) <= args.workers.val
  /\ (\E d \in Docs : job[d] = "collected") => \A e \in PdfFiles : job[e] # "none"

C12_Witness ==
  /\ args.workers.val = MaxWorkers
  /\ Cardinality(Running) = MaxWorkers
  /\ Queued # {}
  /\ batch_summary.file_results = <<>>

\* C18: once the first strategy has returned a table for a document, no
\* lower-priority strategy is invoked for it and none of its tables is kept.
C18_ChainStops ==
  \A d \in Docs :
    (Finished(d) /\ ~future[d].raised /\ env[d].cam.tables # <<>>) =>
      /\ OwnOutcome(d).calls = <<"extract_with_camelot">>
      /\ Get(future[d].value, "pdfplumber_tables_found", 0) = 0

\* C20: when only table writes or the text write fail for a document, every
\* other table file and summary.json are still written for it.
C20_WritesIndependent ==
  \A d \in Docs :
    (/\ Finished(d)
     /\ env[d].fail # {}
     /\ env[d].fail \subseteq TableTargets \cup {TextTarget}) =>
      /\ PathOf(pdf_dir_of(d, disk), SummaryTarget) \in fs
      /\ \A t \in (OwnOutcome(d).tried \cap TableTargets) \ env[d].fail :
           PathOf(pdf_dir_of(d, disk), t) \in fs

\* C13: two documents of a batch that are being processed at the same time
\* have different output directories, and no path is written for two
\* documents of the batch, also when their names differ in spelling only.
C13_DistinctDirectories ==
  /\ \A a, b \in Running : a # b => pdf_dir_of(a, disk) # pdf_dir_of(b, disk)
  /\ \A a, b \in Docs :
       (a # b /\ PoolOpen /\ Finished(a) /\ Finished(b)) =>
         OwnOutcome(a).files \cap OwnOutcome(b).files = {}

\* C14: a batch interrupted during the collection loop still ends with a
\* finalized batch summary, written to batch_summary.json, that holds the
\* documents collected so far.
C14_InterruptedRunFinalizes ==
  (pc = "exit" /\ exit_code = 130) =>
    /\ batch_summary.ended
    /\ <<OutputRoot, "batch_summary_json", 0>> \in fs
    /\ batch_json = batch_summary

\* C15: the second of two runs on unchanged input, into the output directory
\* the first run filled, ends every document's job as the first run did and
\* finalizes the same total, successful and failed counts and table total.
C15_RerunSameCounts ==
  (first.run = 2 /\ Finalized) =>
    /\ first.written
    /\ Counts(batch_summary) = first.counts
    /\ \A d \in PdfFiles : future[d] = first.future[d]

C15_Witness ==
  /\ first.run = 2
  /\ Finalized
  /\ args.n_pdfs = MaxRerunDocs
  /\ batch_summary.successful_files = MaxRerunDocs
  /\ batch_summary.total_tables_found > 0
  /\ \A d \in PdfFiles : PathOf(pdf_dir_of(d, disk), SummaryTarget) \in fs

Log == gui.log_text \o gui.log_queue

\* the messages of the log that report a document's completion
CompletionsOf(d) ==
  {i \in 1..Len(Log) : Log[i][1] \in {"completed", "failed"} /\ Log[i][2] = d}

\* C17: when the window's log ends with "Batch processing completed!", it
\* holds before that exactly one completion message for every processed
\* document, in full batch mode as in test mode.
C17_OneMessagePerDocument ==
  (gui.active /\ Log # <<>> /\ Log[Len(Log)][1] = "batch_completed") =>
    \A d \in Docs : Finished(d) => Cardinality(CompletionsOf(d)) = 1

\* the pdfplumber block of a text chain raises; docling has returned text
PlumberRaises(x) == pdfplumber_text(x.plumber, Len(x.plumber.pages)).exc
DoclingYields(x) ==
  x.app = "app_enhanced" /\ x.docling.available /\ strip(extract_text_with_docling(x.docling))

\* C19: when pdfplumber raises in extract_text_from_pdf, PyPDF2 is still
\* tried and its text is what the function returns.
C19_ExceptionFallsThrough ==
  (tin.app # "idle" /\ ~DoclingYields(tin) /\ PlumberRaises(tin)) =>
    /\ tout.tried[Len(tout.tried)] = "PyPDF2"
    /\ ~pypdf2_text(tin.pypdf2, Len(tin.pypdf2.pages)).exc =>
         tout.text = pypdf2_text(tin.pypdf2, Len(tin.pypdf2.pages)).text

\* a write of the document's job failed
StorageFailed(d) == env[d].fail # {}

\* C21: a document whose job met a storage failure (its directory, a table
\* file, the text file, summary.json or error.json could not be written) ends
\* with a returned summary whose status reports the failure, and no exception
\* leaves process_single_pdf.
C21_StorageFailureReported ==
  \A d \in Docs :
    (Finished(d) /\ StorageFailed(d)) =>
      /\ ~future[d].raised
      /\ future[d].value.status = "error"

\* a step that closes the batch summary
Finalizes == ~batch_summary.ended /\ batch_summary'.ended

\* C22: the batch summary is closed and batch_summary.json written in one step
\* that finds every submitted future done and its result recorded; from then
\* on neither the summary, its file_results and counters, nor the file
\* changes, so it is closed at most once; a run whose loop consumed every
\* result has closed it on exit.
C22_FinalizedOnceAtEnd ==
  /\ [][/\ Finalizes =>
             /\ \A d \in PdfFiles : job[d] = "collected"
             /\ Len(batch_summary.file_results) = batch_summary.total_files
             /\ batch_json' = batch_summary'
             /\ <<OutputRoot, "batch_summary_json", 0>> \in fs'
        /\ batch_summary.ended =>
             /\ batch_summary' = batch_summary
             /\ batch_json' = batch_json
        /\ (~batch_summary.ended /\ batch_json' # batch_json) => Finalizes]_vars
  /\ []((pc = "exit" /\ args.n_pdfs > 0 /\ \A d \in PdfFiles : job[d] = "collected")
          => batch_summary.ended)

C22_Witness ==
  /\ Finalized
  /\ args.n_pdfs = MaxDocs
  /\ args.workers.val = MaxWorkers
  /\ batch_json = batch_summary
  /\ batch_summary.file_results[1].filename = MaxDocs
  /\ batch_summary.successful_files = MaxDocs
  /\ batch_summary.total_tables_found > 0

\* the documents whose future the loop has consumed
Collected == {d \in PdfFiles : job[d] = "collected"}

\* the job returned a success summary
Succeeded(d) == ~future[d].raised /\ future[d].value.status = "success"

RECURSIVE TablesOf(_)
\* the total_tables of the success summaries of a set of documents, added up
TablesOf(S) ==
  IF S = {} THEN 0
  ELSE LET d == CHOOSE e \in S : TRUE
       IN (IF Succeeded(d) THEN Get(future[d].value, "total_tables", 0) ELSE 0)
            + TablesOf(S \ {d})

\* C23: however the workers' completions interleave with the loop, at every
\* moment each consumed job has exactly one file_results entry and no other
\* job has any, and successful_files, failed_files and total_tables_found
\* hold exactly the consumed jobs' contributions.
C23_RecordingAtomic ==
  batch_summary.started =>
    /\ Len(batch_summary.file_results) = Cardinality(Collected)
    /\ \A d \in PdfFiles :
         Cardinality(EntriesFor(d)) = IF d \in Collected THEN 1 ELSE 0
    /\ batch_summary.successful_files = Cardinality({d \in Collected : Succeeded(d)})
    /\ batch_summary.failed_files = Cardinality({d \in Collected : Failed(d)})
    /\ batch_summary.total_tables_found = TablesOf(Collected)

C23_Witness ==
  /\ pc = "collect"
  /\ args.workers.val = MaxWorkers
  /\ \E a, b, c \in PdfFiles :
       /\ job[a] = "collected" /\ Succeeded(a) /\ future[a].value.total_tables > 0
       /\ job[b] = "done" /\ Succeeded(b)
       /\ job[c] = "running"
  /\ batch_summary.total_tables_found > 0

RECURSIVE SumTotalTables(_)
\* the total_tables of a list of recorded results, added up (an error record
\* has none)
SumTotalTables(results) ==
  IF results = <<>> THEN 0
  ELSE Get(Head(results), "total_tables", 0) + SumTotalTables(Tail(results))

\* C24: in a finalized summary total_tables_found is the sum of total_tables
\* over the recorded results, and the total_tables of a recorded success is
\* the number of tables Camelot found plus the number pdfplumber found for it,
\* saved or not.
C24_TableTotal ==
  Finalized =>
    /\ batch_summary.total_tables_found = SumTotalTables(batch_summary.file_results)
    /\ \A i \in 1..Len(batch_summary.file_results) :
         LET r == batch_summary.file_results[i]
         IN r.status = "success" =>
              r.total_tables = Len(env[r.filename].cam.tables) + Len(env[r.filename].pl.tables)

C24_Witness ==
  /\ Finalized
  /\ \E a, b \in PdfFiles :
       /\ Succeeded(a)
       /\ future[a].value.camelot_tables_found > 0
       /\ future[a].value.pdfplumber_tables_found > 0
       /\ future[a].value.camelot_tables_saved < future[a].value.camelot_tables_found
       /\ ~Succeeded(b)
       /\ HasTables(b)
       /\ batch_summary.total_tables_found = future[a].value.total_tables

\* C25: whenever batch_summary.json has been written, batch_summary.csv has
\* been written too, with one row for each success entry of file_results and
\* no other row, also when no document succeeded.
C25_RollupAlwaysWritten ==
  <<OutputRoot, "batch_summary_json", 0>> \in fs =>
    /\ <<OutputRoot, "batch_summary_csv", 0>> \in fs
    /\ batch_csv = successful_results(batch_json)

\* C27: while the loop runs successful_files + failed_files is the number of
\* file_results entries, and a finalized summary has processed_files equal to
\* successful_files + failed_files and to total_files, jobs that raised
\* included.
C27_CountersAgree ==
  /\ batch_summary.started =>
       batch_summary.successful_files + batch_summary.failed_files
         = Len(batch_summary.file_results)
  /\ Finalized =>
       /\ batch_summary.processed_files
            = batch_summary.successful_files + batch_summary.failed_files
       /\ batch_summary.processed_files = batch_summary.total_files

\* C28: a batch run on an existing input directory without any PDF starts no
\* job and ends with a batch summary record of 0 files, 0 successful and 0
\* failed.
C28_EmptyDirectorySummary ==
  (pc = "exit" /\ ~args.test /\ ValidConfig /\ args.n_pdfs = 0) =>
    /\ \A d \in Docs : job[d] = "none"
    /\ batch_summary.started
    /\ <<OutputRoot, "batch_summary_json", 0>> \in fs
    /\ Counts(batch_json) = <<0, 0, 0, 0>>

\* C26: when a strategy call of some document's job hangs, the attempt times
\* out, the job still ends, and the batch runs to its end with every
\* document recorded.
C26_HungCallTimesOut ==
  (\E d \in Docs : job[d] = "hung")
    ~> (pc = "exit" /\ \A d \in PdfFiles : job[d] = "collected")

\* what start_processing checks before it starts anything
ValidationFails == ~gui.input_dir \/ ~gui.output_dir \/ ~args.input_exists

\* C29: the window never has more than one background thread; while a thread
\* runs the Start button is disabled, only processing_finished enables it
\* again, and a press that fails validation starts no thread and leaves the
\* button enabled.
C29_OneThreadAtATime ==
  /\ [](/\ gui.threads <= 1
        /\ gui.thread = "running" => (gui.threads = 1 /\ gui.button = "disabled")
        /\ gui.thread # "running" => gui.threads = 0
        /\ ValidationFails =>
             (gui.starts = 0 /\ gui.thread = "none" /\ gui.button = "normal"))
  /\ [][/\ gui'.starts # gui.starts =>
             (gui.threads = 0 /\ gui.button = "normal" /\ gui'.button = "disabled")
        /\ (gui.button = "disabled" /\ gui'.button = "normal") =>
             (gui.thread = "ended" /\ gui'.finishes = gui.finishes + 1)]_vars

C29_Witness ==
  /\ gui.starts = MaxPresses
  /\ gui.finishes = MaxPresses - 1
  /\ gui.thread = "running"
  /\ gui.button = "disabled"
  /\ pc = "collect"
  /\ \E d \in PdfFiles : job[d] = "running"

\* the window is back in its ready state
Ready ==
  gui.thread = "none" /\ gui.button = "normal" /\ ~gui.progress /\ gui.status = "Ready"

\* C30: every run the window started gets back to the ready state, by one
\* call of processing_finished per run, whether process_files ended normally
\* or with an exception.
C30_ReadyOncePerRun ==
  /\ [](gui.starts = gui.finishes + (IF gui.thread = "none" THEN 0 ELSE 1))
  /\ [][gui'.finishes # gui.finishes => (gui'.finishes = gui.finishes + 1 /\ Ready')]_vars
  /\ (gui.thread = "running") ~> Ready

C30_Witness ==
  /\ Ready
  /\ gui.finishes = MaxPresses
  /\ gui.starts = MaxPresses
  /\ exit_code = 1
  /\ Log[Len(Log)][1] = "error"

====
